---- MODULE Spec2Model ----
(***************************************************************************)
(* A model of omop2obo/clinical_concept_annotator.py: the ConceptAnnotator *)
(* constructor (argument validation and reference-table loading) and its   *)
(* two implemented stages, umls_cui_annotator and dbxref_mapper.           *)
(*                                                                         *)
(* Tables (pandas DataFrames) are sequences of rows, a row is a record of  *)
(* cells.  Cells of the clinical and thesaurus tables are strings; a null  *)
(* cell (NaN) is the marker Null.  Cross-reference strings, URIs and the   *)
(* CODE cells of the long-format table handed to dbxref_mapper are         *)
(* sequences of one-character strings, so that str.split and str.upper are *)
(* computed and not assumed.                                               *)
(***************************************************************************)
EXTENDS Integers, Sequences, FiniteSets, TLC

VARIABLES args, files, self, status, call

vars == <<args, files, self, status, call>>

(***************************************************************************)
(* Bounds of the model.                                                    *)
(***************************************************************************)
MaxClinicalRows == 2
MaxConceptRows == 2
MaxSemTypeRows == 2
MaxDataRows == 2

(***************************************************************************)
(* Python values, as far as __init__ looks at them: the type isinstance    *)
(* tests, the truth value `not x` tests, and an identity.                  *)
(***************************************************************************)
PyVal(t, b, v) == [type |-> t, truthy |-> b, val |-> v]

PyNone == PyVal("NoneType", FALSE, "None")
PyEmptyStr == PyVal("str", FALSE, "")
PyZero == PyVal("int", FALSE, "0")
PyInt == PyVal("int", TRUE, "7")
PyEmptyList == PyVal("list", FALSE, "[]")
PyStr(v) == PyVal("str", TRUE, v)
PyList(v) == PyVal("list", TRUE, v)
PyUnset == PyVal("unset", FALSE, "")

Null == "<NA>"

(***************************************************************************)
(* Attributes that hold a table: not yet assigned, None, or a DataFrame.   *)
(***************************************************************************)
AttrUnset == [state |-> "unset", rows |-> <<>>]
AttrNone == [state |-> "None", rows |-> <<>>]
Frame(rows) == [state |-> "frame", rows |-> rows]

(***************************************************************************)
(* Generic sequence helpers.                                               *)
(***************************************************************************)
Range(s) == {s[i] : i \in 1..Len(s)}

SeqsUpTo(S, n) == UNION {[1..k -> S] : k \in 0..n}

Last(s) == s[Len(s)]

Count(s, x) == Cardinality({i \in 1..Len(s) : s[i] = x})

RECURSIVE SetToSeq(_)
SetToSeq(S) == IF S = {} THEN <<>> ELSE LET x == CHOOSE y \in S : TRUE IN <<x>> \o SetToSeq(S \ {x})

(* DataFrame.drop_duplicates(): keeps the first occurrence of every row.   *)
RECURSIVE DropDuplicatesFrom(_, _)
DropDuplicatesFrom(s, seen) ==
  IF s = <<>> THEN <<>>
  ELSE IF Head(s) \in seen THEN DropDuplicatesFrom(Tail(s), seen)
       ELSE <<Head(s)>> \o DropDuplicatesFrom(Tail(s), seen \cup {Head(s)})

DropDuplicates(s) == DropDuplicatesFrom(s, {})

NoDuplicates(s) == \A i, j \in 1..Len(s) : s[i] = s[j] => i = j

(* Series.astype(str) of one cell: a null becomes the text 'nan'.          *)
AsStr(c) == IF c = Null THEN "nan" ELSE c

(***************************************************************************)
(* The file system as os.path.exists, os.stat and pandas.read_csv see it.  *)
(* `files` holds the parsed content of the three readable files.           *)
(***************************************************************************)
FileKind(path) ==
  CASE path = "missing.csv" -> "missing"
    [] path = "empty.csv" -> "empty"
    [] path = "garbled.csv" -> "garbled"
    [] OTHER -> "good"

Exists(path) == FileKind(path) # "missing"

StSize0(path) == FileKind(path) = "empty"

NoError == [type |-> "none", arg |-> "", msg |-> ""]

Error(t, a, m) == [type |-> t, arg |-> a, msg |-> m]

(* The chain without its st_size branch: an empty file goes on to the load. *)
FileChecksNoSize(name, v) ==
  IF v.type # "str"
    THEN [trace |-> <<<<name, "type">>>>,
          error |-> Error("TypeError", name, "must be type str")]
  ELSE IF ~Exists(v.val)
    THEN [trace |-> <<<<name, "type">>, <<name, "exists">>>>,
          error |-> Error("OSError", name, "file does not exist")]
  ELSE [trace |-> <<<<name, "type">>, <<name, "exists">>>>, error |-> NoError]

(* The if/elif chain that guards every file argument: isinstance(str),     *)
(* os.path.exists, os.stat(...).st_size == 0.  The result is the checks    *)
(* made, in order, and the exception raised (NoError: go on to the load).  *)
FileChecks(name, v) ==
  IF v.type # "str"
    THEN [trace |-> <<<<name, "type">>>>,
          error |-> Error("TypeError", name, "must be type str")]
  ELSE IF ~Exists(v.val)
    THEN [trace |-> <<<<name, "type">>, <<name, "exists">>>>,
          error |-> Error("OSError", name, "file does not exist")]
  ELSE IF StSize0(v.val)
    THEN [trace |-> <<<<name, "type">>, <<name, "exists">>, <<name, "size">>>>,
          error |-> Error("TypeError", name, "file is empty")]
  ELSE [trace |-> <<<<name, "type">>, <<name, "exists">>, <<name, "size">>>>,
        error |-> NoError]

(* pd.read_csv: a file neither delimiter parses raises ParserError.        *)
ReadCsv(name, v) ==
  IF FileKind(v.val) = "garbled"
    THEN [trace |-> <<<<name, "load">>>>, error |-> Error("ParserError", name, "cannot parse")]
  ELSE IF FileKind(v.val) = "empty"
    THEN [trace |-> <<<<name, "load">>>>, error |-> Error("EmptyDataError", name, "no columns")]
    ELSE [trace |-> <<<<name, "load">>>>, error |-> NoError]

(* read_csv(clinical_file, header=0).astype(str)                           *)
LoadClinical(raw) ==
  [i \in 1..Len(raw) |-> [pk |-> AsStr(raw[i].pk), code |-> AsStr(raw[i].code),
                          label |-> AsStr(raw[i].label)]]

ConceptAsStr(raw) ==
  [i \in 1..Len(raw) |-> [CUI |-> AsStr(raw[i].CUI), SAB |-> AsStr(raw[i].SAB),
                          CODE |-> AsStr(raw[i].CODE)]]

(* The sentinel of MRCONSO rows that carry no source code.                 *)
NoCode == "NOCODE"

(* The filter left out.                                                    *)
NoCodeFilterOff(rows) == rows

(* self.umls_cui_data[self.umls_cui_data.CODE != 'NOCODE']                 *)
NoCodeFilter(rows) == SelectSeq(rows, LAMBDA r : r.CODE # NoCode)

(* read_csv(umls_mrconso_file, usecols=[0, 11, 13]).drop_duplicates()      *)
(* .astype(str), then the NOCODE filter and a second drop_duplicates().    *)
LoadMrconso(raw) == DropDuplicates(NoCodeFilter(ConceptAsStr(DropDuplicates(raw))))

(* read_csv(umls_mrsty_file, usecols=[0, 3]).drop_duplicates().astype(str) *)
LoadMrsty(raw) ==
  LET d == DropDuplicates(raw)
  IN  [i \in 1..Len(d) |-> [CUI |-> AsStr(d[i].CUI), STY |-> AsStr(d[i].STY)]]

(***************************************************************************)
(* ConceptAnnotator.__init__.  The object under construction is            *)
(* st.self; st.error is the exception that ended construction and st.trace *)
(* the checks and loads performed so far.                                  *)
(***************************************************************************)
NewSelf ==
  [clinical_data |-> AttrUnset, primary_key |-> PyUnset, concept_codes |-> PyUnset,
   concept_strings |-> PyUnset, ancestor_codes |-> PyUnset, ancestor_strings |-> PyUnset,
   ontology_dictionary |-> [type |-> "unset", truthy |-> FALSE, val |-> "",
                            onts |-> [o \in {"hp", "mondo"} |-> {}]],
   umls_data |-> AttrUnset, umls_cui_data |-> AttrUnset, umls_tui_data |-> AttrUnset]

NewObject == [self |-> NewSelf, error |-> NoError, trace |-> <<>>]

Raise(st, tr, e) == [st EXCEPT !.error = e, !.trace = st.trace \o tr]

(* A file argument that has to be read: the checks, then the load.         *)
CheckAndLoad(st, name, v, attr, table) ==
  LET c == FileChecks(name, v)
      l == ReadCsv(name, v)
  IN  IF c.error # NoError THEN Raise(st, c.trace, c.error)
      ELSE IF l.error # NoError THEN Raise(st, c.trace \o l.trace, l.error)
      ELSE [st EXCEPT !.self = [st.self EXCEPT ![attr] = Frame(table)],
                      !.trace = st.trace \o c.trace \o l.trace]

InitClinicalFile(st, a, fs) ==
  CheckAndLoad(st, "clinical_file", a.clinical_file, "clinical_data", LoadClinical(fs.clinical))

InitPrimaryKey(st, a) ==
  IF a.primary_key.type # "str"
    THEN Raise(st, <<<<"primary_key", "type">>>>, Error("TypeError", "primary_key", "must be type str"))
    ELSE [st EXCEPT !.self.primary_key = a.primary_key,
                    !.trace = st.trace \o <<<<"primary_key", "type">>>>]

InitConceptCodes(st, a) ==
  IF a.concept_codes.type # "list"
    THEN Raise(st, <<<<"concept_codes", "type">>>>,
               Error("TypeError", "concept_codes", "must be type list"))
    ELSE [st EXCEPT !.self.concept_codes = a.concept_codes,
                    !.trace = st.trace \o <<<<"concept_codes", "type">>>>]

(* The three optional list arguments: `if not x: self.x = x`, else the     *)
(* isinstance test.                                                        *)
InitOptionalList(st, name, v) ==
  IF ~v.truthy
    THEN [st EXCEPT !.self = [st.self EXCEPT ![name] = v],
                    !.trace = st.trace \o <<<<name, "provided">>>>]
  ELSE IF v.type # "list"
    THEN Raise(st, <<<<name, "provided">>, <<name, "type">>>>,
               Error("TypeError", name, "must be type list"))
  ELSE [st EXCEPT !.self = [st.self EXCEPT ![name] = v],
                  !.trace = st.trace \o <<<<name, "provided">>, <<name, "type">>>>]

InitOntologyDictionary(st, a) ==
  IF a.ontology_dictionary.type # "dict"
    THEN Raise(st, <<<<"ontology_dictionary", "type">>>>,
               Error("TypeError", "ontology_dictionary", "must be type dict"))
    ELSE [st EXCEPT !.self.ontology_dictionary = a.ontology_dictionary,
                    !.trace = st.trace \o <<<<"ontology_dictionary", "type">>>>]

(* `if not umls_mrconso_file: self.umls_data = None`: the attribute set    *)
(* when the file is not given is umls_data, not umls_cui_data.             *)
InitMrconso(st, a, fs) ==
  IF ~a.umls_mrconso_file.truthy
    THEN [st EXCEPT !.self.umls_data = AttrNone,
                    !.trace = st.trace \o <<<<"umls_mrconso_file", "provided">>>>]
    ELSE CheckAndLoad([st EXCEPT !.trace = st.trace \o <<<<"umls_mrconso_file", "provided">>>>],
                      "umls_mrconso_file", a.umls_mrconso_file, "umls_cui_data",
                      LoadMrconso(fs.mrconso))

InitMrsty(st, a, fs) ==
  IF ~a.umls_mrsty_file.truthy
    THEN [st EXCEPT !.self.umls_tui_data = AttrNone,
                    !.trace = st.trace \o <<<<"umls_mrsty_file", "provided">>>>]
    ELSE CheckAndLoad([st EXCEPT !.trace = st.trace \o <<<<"umls_mrsty_file", "provided">>>>],
                      "umls_mrsty_file", a.umls_mrsty_file, "umls_tui_data",
                      LoadMrsty(fs.mrsty))

(* The primary key checked before the clinical file.                       *)
InitOrderSwapped ==
  <<"primary_key", "clinical_file", "concept_codes", "concept_strings", "ancestor_codes",
    "ancestor_strings", "ontology_dictionary", "umls_mrconso_file", "umls_mrsty_file">>

(* The order of the blocks of __init__.                                    *)
InitOrder ==
  <<"clinical_file", "primary_key", "concept_codes", "concept_strings", "ancestor_codes",
    "ancestor_strings", "ontology_dictionary", "umls_mrconso_file", "umls_mrsty_file">>

InitStep(step, st, a, fs) ==
  CASE step = "clinical_file" -> InitClinicalFile(st, a, fs)
    [] step = "primary_key" -> InitPrimaryKey(st, a)
    [] step = "concept_codes" -> InitConceptCodes(st, a)
    [] step = "concept_strings" -> InitOptionalList(st, "concept_strings", a.concept_strings)
    [] step = "ancestor_codes" -> InitOptionalList(st, "ancestor_codes", a.ancestor_codes)
    [] step = "ancestor_strings" -> InitOptionalList(st, "ancestor_strings", a.ancestor_strings)
    [] step = "ontology_dictionary" -> InitOntologyDictionary(st, a)
    [] step = "umls_mrconso_file" -> InitMrconso(st, a, fs)
    [] step = "umls_mrsty_file" -> InitMrsty(st, a, fs)

(* Statements run one after the other; a raise ends the constructor.       *)
RECURSIVE InitFrom(_, _, _, _)
InitFrom(i, st, a, fs) ==
  IF i > Len(InitOrder) \/ st.error # NoError THEN st
  ELSE InitFrom(i + 1, InitStep(InitOrder[i], st, a, fs), a, fs)

ConceptAnnotatorInit(a, fs) == InitFrom(1, NewObject, a, fs)

(***************************************************************************)
(* umls_cui_annotator.  The column names primary_key and code_level are    *)
(* the columns pk and code of the clinical table.                          *)
(***************************************************************************)

(* The duplicates dropped from self.clinical_data itself (inplace=True).   *)
ClinicalDataDeduplicated(clinical) == DropDuplicates(clinical)

(* self.clinical_data after line 147: indexing and drop_duplicates() both  *)
(* return a new frame, the attribute keeps its rows.                       *)
ClinicalDataAfterIds(clinical) == clinical

(* self.clinical_data[[primary_key, code_level]].drop_duplicates()         *)
ClinicalIds(clinical) ==
  DropDuplicates([i \in 1..Len(clinical) |-> [pk |-> clinical[i].pk, code |-> clinical[i].code]])

(* One left row of the inner merge on code_level = CODE: the matching      *)
(* right rows, in the right table's order.                                 *)
RECURSIVE ConceptMatches(_, _)
ConceptMatches(l, cui) ==
  IF cui = <<>> THEN <<>>
  ELSE (IF l.code = Head(cui).CODE
          THEN <<[pk |-> l.pk, code |-> l.code, CUI |-> Head(cui).CUI,
                  SAB |-> Head(cui).SAB, CODE |-> Head(cui).CODE]>>
          ELSE <<>>) \o ConceptMatches(l, Tail(cui))

(* The merge done with how='left': an unmatched clinical pair is kept,     *)
(* with null thesaurus columns.                                            *)
RECURSIVE ConceptJoinLeft(_, _)
ConceptJoinLeft(ids, cui) ==
  IF ids = <<>> THEN <<>>
  ELSE (IF ConceptMatches(Head(ids), cui) = <<>>
          THEN <<[pk |-> Head(ids).pk, code |-> Head(ids).code, CUI |-> Null,
                  SAB |-> Null, CODE |-> Null]>>
          ELSE ConceptMatches(Head(ids), cui)) \o ConceptJoinLeft(Tail(ids), cui)

(* clinical_ids.merge(self.umls_cui_data, how='inner', left_on=code_level, *)
(* right_on='CODE')                                                        *)
RECURSIVE ConceptJoin(_, _)
ConceptJoin(ids, cui) ==
  IF ids = <<>> THEN <<>>
  ELSE ConceptMatches(Head(ids), cui) \o ConceptJoin(Tail(ids), cui)

RECURSIVE SemTypeMatches(_, _)
SemTypeMatches(l, tui) ==
  IF tui = <<>> THEN <<>>
  ELSE (IF l.CUI = Head(tui).CUI
          THEN <<[pk |-> l.pk, code |-> l.code, CUI |-> l.CUI, SAB |-> l.SAB,
                  CODE |-> l.CODE, STY |-> Head(tui).STY]>>
          ELSE <<>>) \o SemTypeMatches(l, Tail(tui))

(* The merge done with how='inner': a row without a semantic type is lost. *)
SemTypeInnerRow(l, tui) == SemTypeMatches(l, tui)

(* One left row of the left merge on CUI: its matches, or the row itself   *)
(* with a null STY when there is none.                                     *)
SemTypeLeftRow(l, tui) ==
  IF SemTypeMatches(l, tui) = <<>>
    THEN <<[pk |-> l.pk, code |-> l.code, CUI |-> l.CUI, SAB |-> l.SAB,
            CODE |-> l.CODE, STY |-> Null]>>
    ELSE SemTypeMatches(l, tui)

RECURSIVE SemTypeMerge(_, _)
SemTypeMerge(umls_cui, tui) ==
  IF umls_cui = <<>> THEN <<>>
  ELSE SemTypeLeftRow(Head(umls_cui), tui) \o SemTypeMerge(Tail(umls_cui), tui)

(* umls_cui.merge(self.umls_tui_data, how='left', on='CUI')                *)
(* .drop_duplicates()                                                      *)
SemTypeJoin(umls_cui, tui) == DropDuplicates(SemTypeMerge(umls_cui, tui))

(* umls_cui_semtype.columns = [primary_key, code_level, 'UMLS_CUI',        *)
(* 'UMLS_SAB', 'UMLS_CODE', 'UMLS_SEM_TYPE']                               *)
UpdatedCols(t) ==
  [i \in 1..Len(t) |-> [pk |-> t[i].pk, code |-> t[i].code, UMLS_CUI |-> t[i].CUI,
                        UMLS_SAB |-> t[i].SAB, UMLS_CODE |-> t[i].CODE,
                        UMLS_SEM_TYPE |-> t[i].STY]]

(* The whole method: the object after the call, the exception raised (an   *)
(* attribute never assigned: AttributeError; merge with None: TypeError),  *)
(* the merges that ran, and the table returned.                            *)
umls_cui_annotator(slf) ==
  LET clinical_ids == ClinicalIds(slf.clinical_data.rows)
      umls_cui == ConceptJoin(clinical_ids, slf.umls_cui_data.rows)
      after == [slf EXCEPT !.clinical_data.rows = ClinicalDataAfterIds(@)]
  IN  IF slf.umls_cui_data.state = "unset"
        THEN [self |-> after, error |-> Error("AttributeError", "umls_cui_data", "no attribute"),
              joins |-> <<>>, returned |-> FALSE, result |-> <<>>]
      ELSE IF slf.umls_tui_data.state # "frame"
        THEN [self |-> after, error |-> Error("TypeError", "umls_tui_data", "cannot merge None"),
              joins |-> <<"concept">>, returned |-> FALSE, result |-> <<>>]
      ELSE [self |-> after, error |-> NoError, joins |-> <<"concept", "semtype">>,
            returned |-> TRUE,
            result |-> UpdatedCols(SemTypeJoin(umls_cui, slf.umls_tui_data.rows))]

(***************************************************************************)
(* Strings of the cross-reference stage: sequences of characters.          *)
(***************************************************************************)

(* str.split(sep) with a one-character separator: the pieces between the   *)
(* separators, always at least one piece.                                  *)
RECURSIVE SplitAcc(_, _, _)
SplitAcc(s, sep, cur) ==
  IF s = <<>> THEN <<cur>>
  ELSE IF Head(s) = sep THEN <<cur>> \o SplitAcc(Tail(s), sep, <<>>)
  ELSE SplitAcc(Tail(s), sep, Append(cur, Head(s)))

Split(s, sep) == SplitAcc(s, sep, <<>>)

UpperChar(c) ==
  CASE c = "h" -> "H"
    [] c = "p" -> "P"
    [] c = "o" -> "O"
    [] c = "m" -> "M"
    [] OTHER -> c

(* str.upper()                                                             *)
Upper(s) == [i \in 1..Len(s) |-> UpperChar(s[i])]

(* merge_dictionaries(self.ontology_dictionary, 'dbxref'): the dbxref      *)
(* sections of all ontologies combined, every (string, URI) entry kept.    *)
merge_dictionaries(onts) == UNION {onts[o] : o \in DOMAIN onts}

(* A slip of the index: the first piece in place of the last.              *)
DbxrefCodeFirstPiece(x) == Head(Split(x, ":"))

(* lambda x: x.split(':')[-1]                                              *)
DbxrefCode(x) == Last(Split(x, ":"))

(* The acronym left in the case of the URI.                                *)
OntAcronymNoUpper(x) == Head(Split(Last(Split(x, "/")), "_"))

(* lambda x: x.split('/')[-1].split('_')[0].upper()                        *)
OntAcronym(x) == Upper(Head(Split(Last(Split(x, "/")), "_")))

(* lambda x: 'DbXRef_' + x.split(':')[0]                                   *)
EvidenceTag(x) == <<"D", "b", "X", "R", "e", "f", "_">> \o Head(Split(x, ":"))

(* pd.DataFrame(combined_dictionaries.items(), columns=['DBXREF',          *)
(* 'ONT_URI']) and the derived CODE column.                                *)
ComboDictDf(combined) ==
  LET items == SetToSeq(combined)
  IN  [i \in 1..Len(items) |-> [DBXREF |-> items[i][1], ONT_URI |-> items[i][2],
                                CODE |-> DbxrefCode(items[i][1])]]

RECURSIVE DbxrefMatches(_, _)
DbxrefMatches(l, combo) ==
  IF combo = <<>> THEN <<>>
  ELSE (IF l.CODE = Head(combo).CODE
          THEN <<[pk |-> l.pk, CODE |-> l.CODE, DBXREF |-> Head(combo).DBXREF,
                  ONT_URI |-> Head(combo).ONT_URI]>>
          ELSE <<>>) \o DbxrefMatches(l, Tail(combo))

RECURSIVE DbxrefMerge(_, _)
DbxrefMerge(data, combo) ==
  IF data = <<>> THEN <<>>
  ELSE DbxrefMatches(Head(data), combo) \o DbxrefMerge(Tail(data), combo)

(* data.merge(combo_dict_df, how='inner', on='CODE').drop_duplicates()     *)
DbxrefJoin(data, combo) == DropDuplicates(DbxrefMerge(data, combo))

(* The ONT and EVIDENCE columns added to the merged table.                 *)
WithOntEvidence(t) ==
  [i \in 1..Len(t) |-> [pk |-> t[i].pk, CODE |-> t[i].CODE, DBXREF |-> t[i].DBXREF,
                        ONT_URI |-> t[i].ONT_URI, ONT |-> OntAcronym(t[i].ONT_URI),
                        EVIDENCE |-> EvidenceTag(t[i].DBXREF)]]

(* The whole method: the object and the argument table after the call and  *)
(* the table returned.                                                     *)
dbxref_mapper(slf, data) ==
  LET combo_dict_df == ComboDictDf(merge_dictionaries(slf.ontology_dictionary.onts))
      merged_dbxrefs == WithOntEvidence(DbxrefJoin(data, combo_dict_df))
  IN  [self |-> slf, data |-> data, error |-> NoError, joins |-> <<"dbxref">>,
       returned |-> TRUE, result |-> DropDuplicates(merged_dbxrefs)]

(***************************************************************************)
(* The inputs the model draws from.                                        *)
(***************************************************************************)
ClinicalRawRows ==
  {[pk |-> "1", code |-> "123", label |-> "a"],
   [pk |-> "1", code |-> "123", label |-> "b"],
   [pk |-> "2", code |-> "NOCODE", label |-> "a"]}

ConceptRawRows ==
  {[CUI |-> "C1", SAB |-> "ICD9", CODE |-> "123"],
   [CUI |-> "C2", SAB |-> "ICD9", CODE |-> "123"],
   [CUI |-> "C1", SAB |-> "ICD9", CODE |-> "NOCODE"]}

SemTypeRawRows ==
  {[CUI |-> "C1", STY |-> "T1"],
   [CUI |-> "C1", STY |-> "T2"],
   [CUI |-> "C2", STY |-> Null]}

(* Cross-reference strings "I:1", "U:I:3" and "3"; URIs "o/hp_1" and       *)
(* "o/p/Mo".                                                               *)
DbxrefStrings == {<<"I", ":", "1">>, <<"U", ":", "I", ":", "3">>, <<"3">>}

Uris == {<<"o", "/", "h", "p", "_", "1">>, <<"o", "/", "p", "/", "M", "o">>}

(* A dbxref section is a dict: at most one URI for a string.               *)
DbxrefSections ==
  {sec \in SUBSET (DbxrefStrings \X Uris) : \A e, f \in sec : e[1] = f[1] => e = f}

(* The second ontology draws from two entries, one of them a string the    *)
(* first ontology may also define.                                         *)
MondoSections ==
  SUBSET {<<(<<"I", ":", "1">>), (<<"o", "/", "p", "/", "M", "o">>)>>,
          <<(<<"3">>), (<<"o", "/", "p", "/", "M", "o">>)>>}

DataRows ==
  {[pk |-> "1", CODE |-> c] : c \in {<<"1">>, <<"I", ":", "3">>, <<"3">>}}

SampleFiles ==
  [clinical |-> <<[pk |-> "1", code |-> "123", label |-> "a"],
                  [pk |-> "1", code |-> "123", label |-> "a"]>>,
   mrconso |-> <<[CUI |-> "C1", SAB |-> "ICD9", CODE |-> "123"],
                 [CUI |-> "C1", SAB |-> "ICD9", CODE |-> "NOCODE"]>>,
   mrsty |-> <<[CUI |-> "C1", STY |-> "T1"]>>]

SampleOnts ==
  [o \in {"hp", "mondo"} |->
     IF o = "hp" THEN {<<(<<"I", ":", "1">>), (<<"o", "/", "h", "p", "_", "1">>)>>}
                 ELSE {<<(<<"3">>), (<<"o", "/", "p", "/", "M", "o">>)>>}]

SampleData == {<<[pk |-> "1", CODE |-> <<"1">>], [pk |-> "1", CODE |-> <<"3">>]>>}

PyDict(onts) == [type |-> "dict", truthy |-> TRUE, val |-> "{hp, mondo}", onts |-> onts]

NotADict == [type |-> "list", truthy |-> TRUE, val |-> "[hp]",
             onts |-> [o \in {"hp", "mondo"} |-> {}]]

ClinicalFileArgs ==
  {PyInt, PyStr("missing.csv"), PyStr("empty.csv"), PyStr("garbled.csv"), PyStr("clinical.csv")}

OptionalListArgs == {PyNone, PyEmptyStr, PyStr("LABEL"), PyList("[LABEL]")}

ThesaurusFileArgs(good) ==
  {PyNone, PyInt, PyStr("missing.csv"), PyStr("empty.csv"), PyStr("garbled.csv"), PyStr(good)}

AllArgs ==
  [clinical_file : ClinicalFileArgs,
   ontology_dictionary : {PyDict(SampleOnts), NotADict},
   primary_key : {PyStr("CONCEPT_ID"), PyInt},
   concept_codes : {PyList("[CODE]"), PyStr("CODE")},
   concept_strings : OptionalListArgs,
   ancestor_codes : OptionalListArgs,
   ancestor_strings : OptionalListArgs,
   umls_mrconso_file : ThesaurusFileArgs("MRCONSO.RRF"),
   umls_mrsty_file : ThesaurusFileArgs("MRSTY.RRF")]

ValidArgs(onts, mrconso, mrsty) ==
  [clinical_file |-> PyStr("clinical.csv"),
   ontology_dictionary |-> PyDict(onts),
   primary_key |-> PyStr("CONCEPT_ID"),
   concept_codes |-> PyList("[CODE]"),
   concept_strings |-> PyList("[LABEL]"),
   ancestor_codes |-> PyNone,
   ancestor_strings |-> PyNone,
   umls_mrconso_file |-> mrconso,
   umls_mrsty_file |-> mrsty]

NoCall ==
  [op |-> "none", prev |-> "none", data |-> <<>>, after |-> <<>>, error |-> NoError, joins |-> <<>>,
   returned |-> FALSE, result |-> <<>>]

(***************************************************************************)
(* The state machine.  Before Construct there is no object; a constructor  *)
(* that raises leaves none (status.phase = "failed", `self` shows what had *)
(* been assigned when it raised), so the stages are callable only on       *)
(* status.phase = "ok".                                                    *)
(***************************************************************************)
InitCommon ==
  /\ self = NewSelf
  /\ status = [phase |-> "new", error |-> NoError, trace |-> <<>>]
  /\ call = NoCall

(* Any arguments, fixed file contents.                                     *)
Init ==
  /\ args \in AllArgs
  /\ files = SampleFiles
  /\ InitCommon

(* Valid arguments, any content of the clinical and thesaurus files.       *)
InitUmls ==
  /\ args = ValidArgs(SampleOnts, PyStr("MRCONSO.RRF"), PyStr("MRSTY.RRF"))
  /\ files \in [clinical : SeqsUpTo(ClinicalRawRows, MaxClinicalRows),
                mrconso : SeqsUpTo(ConceptRawRows, MaxConceptRows),
                mrsty : SeqsUpTo(SemTypeRawRows, MaxSemTypeRows)]
  /\ InitCommon

(* Valid arguments, any ontology dictionary, no thesaurus.                 *)
InitDbxref ==
  /\ args \in {ValidArgs(onts, PyNone, PyNone) : onts \in {[o \in {"hp", "mondo"} |-> IF o = "hp" THEN h ELSE m] :
                                  h \in DbxrefSections, m \in MondoSections}}
  /\ files = SampleFiles
  /\ InitCommon

Construct ==
  /\ status.phase = "new"
  /\ LET st == ConceptAnnotatorInit(args, files)
     IN  /\ self' = st.self
         /\ status' = [phase |-> IF st.error = NoError THEN "ok" ELSE "failed",
                       error |-> st.error, trace |-> st.trace]
  /\ UNCHANGED <<args, files, call>>

UmlsCuiAnnotator ==
  /\ status.phase = "ok"
  /\ LET r == umls_cui_annotator(self)
     IN  /\ self' = r.self
         /\ call' = [op |-> "umls_cui_annotator", prev |-> call.op, data |-> <<>>, after |-> <<>>,
                     error |-> r.error, joins |-> r.joins, returned |-> r.returned,
                     result |-> r.result]
  /\ UNCHANGED <<args, files, status>>

DbxrefMapper(inputs) ==
  /\ status.phase = "ok"
  /\ \E data \in inputs :
       LET r == dbxref_mapper(self, data)
       IN  /\ self' = r.self
           /\ call' = [op |-> "dbxref_mapper", prev |-> call.op, data |-> data, after |-> r.data,
                       error |-> r.error, joins |-> r.joins, returned |-> r.returned,
                       result |-> r.result]
  /\ UNCHANGED <<args, files, status>>

Next == Construct \/ UmlsCuiAnnotator \/ DbxrefMapper(SampleData)

NextUmls == Construct \/ UmlsCuiAnnotator

NextDbxref == Construct \/ UmlsCuiAnnotator \/ DbxrefMapper(SeqsUpTo(DataRows, MaxDataRows))

Spec == Init /\ [][Next]_vars

SpecUmls == InitUmls /\ [][NextUmls]_vars

SpecDbxref == InitDbxref /\ [][NextDbxref]_vars

(***************************************************************************)
(* Properties of dbxref_mapper, checked under SpecDbxref.                  *)
(***************************************************************************)
DbxCalled == call.op = "dbxref_mapper"

Flattened == merge_dictionaries(self.ontology_dictionary.onts)

Positions(x, ch) == {i \in 1..Len(x) : x[i] = ch}

(* c is the text of x after its last colon (x itself without a colon).     *)
IsTextAfterLastColon(x, c) ==
  IF Positions(x, ":") = {} THEN c = x
  ELSE \E i \in Positions(x, ":") :
         /\ \A j \in Positions(x, ":") : j <= i
         /\ c = SubSeq(x, i + 1, Len(x))

(* c is the text of x after its vocabulary prefix, the text before the     *)
(* first colon (x itself without a colon).                                 *)
IsTextAfterVocabularyPrefix(x, c) ==
  IF Positions(x, ":") = {} THEN c = x
  ELSE \E i \in Positions(x, ":") :
         /\ \A j \in Positions(x, ":") : j >= i
         /\ c = SubSeq(x, i + 1, Len(x))

(* p is the text of x before its first ch (x itself without one).          *)
IsTextBeforeFirst(x, ch, p) ==
  /\ Len(p) <= Len(x)
  /\ p = SubSeq(x, 1, Len(p))
  /\ Positions(p, ch) = {}
  /\ Len(p) = Len(x) \/ x[Len(p) + 1] = ch

(* g is the last ch-separated segment of x.                                *)
IsLastSegment(x, ch, g) ==
  /\ Len(g) <= Len(x)
  /\ g = SubSeq(x, Len(x) - Len(g) + 1, Len(x))
  /\ Positions(g, ch) = {}
  /\ Len(g) = Len(x) \/ x[Len(x) - Len(g)] = ch

LowerUpper == {<<"h", "H">>, <<"p", "P">>, <<"o", "O">>, <<"m", "M">>}

IsUpperCased(t, u) ==
  /\ Len(u) = Len(t)
  /\ \A i \in 1..Len(t) :
       \/ <<t[i], u[i]>> \in LowerUpper
       \/ u[i] = t[i] /\ \A lu \in LowerUpper : t[i] # lu[1]

RowOf(o, r, d) ==
  /\ o.pk = r.pk
  /\ o.CODE = r.CODE
  /\ o.DBXREF = d[1]
  /\ o.ONT_URI = d[2]

(* The join of dbxref_mapper on the code computed by IsCode, exactly.      *)
InnerJoinOn(IsCode(_, _)) ==
  DbxCalled =>
    /\ call.error = NoError
    /\ call.returned
    /\ \A r \in Range(call.data), d \in Flattened :
         (\E o \in Range(call.result) : RowOf(o, r, d)) <=> IsCode(d[1], r.CODE)
    /\ \A o \in Range(call.result) : \E r \in Range(call.data), d \in Flattened : RowOf(o, r, d)

(* C1, as stated: dbxref_mapper is an exact inner join on code, the output *)
(* holding a row for an input row r and a flattened entry d if and only if *)
(* r.CODE is the text of d's cross-reference string after its vocabulary   *)
(* prefix; an unmatched input row gives no row and no error.               *)
C1_JoinOnTextAfterVocabularyPrefix == InnerJoinOn(IsTextAfterVocabularyPrefix)

(* C1, amended: dbxref_mapper is an exact inner join on code, the output   *)
(* holding a row for an input row r and a flattened entry d if and only if *)
(* r.CODE is the text of d's cross-reference string after its last colon   *)
(* (the whole string when it has no colon); an unmatched input row gives   *)
(* no row and no error.                                                    *)
C1_JoinOnTextAfterLastColon == InnerJoinOn(IsTextAfterLastColon)

(* A call that matched a cross-reference with two colons and dropped an    *)
(* input row that matched nothing.                                         *)
C1_Witness ==
  /\ DbxCalled
  /\ \E o \in Range(call.result) : Cardinality(Positions(o.DBXREF, ":")) = 2
  /\ \E r \in Range(call.data) : \A o \in Range(call.result) : o.CODE # r.CODE

(* C2: in every row output by dbxref_mapper ONT is the upper-cased text    *)
(* before the first underscore of the last '/'-separated segment of        *)
(* ONT_URI, and EVIDENCE is 'DbXRef_' followed by the text before the      *)
(* first colon of DBXREF.                                                  *)
C2_OntAndEvidence ==
  DbxCalled =>
    \A o \in Range(call.result) :
      /\ \E g \in {SubSeq(o.ONT_URI, k, Len(o.ONT_URI)) : k \in 1..(Len(o.ONT_URI) + 1)} :
           /\ IsLastSegment(o.ONT_URI, "/", g)
           /\ \E t \in {SubSeq(g, 1, k) : k \in 0..Len(g)} :
                /\ IsTextBeforeFirst(g, "_", t)
                /\ IsUpperCased(t, o.ONT)
      /\ Len(o.EVIDENCE) >= 7
      /\ SubSeq(o.EVIDENCE, 1, 7) = <<"D", "b", "X", "R", "e", "f", "_">>
      /\ IsTextBeforeFirst(o.DBXREF, ":", SubSeq(o.EVIDENCE, 8, Len(o.EVIDENCE)))

(* The spec's example: a code matched to a cross-reference of vocabulary   *)
(* "I" and a URI ending in "hp_1" gives ONT "HP" and EVIDENCE "DbXRef_I".  *)
C2_Witness ==
  /\ DbxCalled
  /\ \E o \in Range(call.result) :
       /\ o.ONT = <<"H", "P">>
       /\ o.EVIDENCE = <<"D", "b", "X", "R", "e", "f", "_", "I">>
       /\ o.ONT_URI = <<"o", "/", "h", "p", "_", "1">>

(***************************************************************************)
(* Properties of umls_cui_annotator, checked under SpecUmls.               *)
(***************************************************************************)
UmlsReturned == call.op = "umls_cui_annotator" /\ call.returned

(* The distinct (primary_key, code) pairs of the clinical table.           *)
ClinicalPairs == {[pk |-> r.pk, code |-> r.code] : r \in Range(self.clinical_data.rows)}

ConceptRows == Range(self.umls_cui_data.rows)

SemanticTypes(cui) == {t.STY : t \in {u \in Range(self.umls_tui_data.rows) : u.CUI = cui}}

Enriches(o, p, c) ==
  /\ o.pk = p.pk
  /\ o.code = p.code
  /\ o.UMLS_CUI = c.CUI
  /\ o.UMLS_SAB = c.SAB
  /\ o.UMLS_CODE = c.CODE

Enriched(p, c, sty) ==
  [pk |-> p.pk, code |-> p.code, UMLS_CUI |-> c.CUI, UMLS_SAB |-> c.SAB,
   UMLS_CODE |-> c.CODE, UMLS_SEM_TYPE |-> sty]

(* C3: umls_cui_annotator inner-joins the distinct (primary_key, code)     *)
(* pairs of the clinical table against the concept table on code equality: *)
(* the output has an enriched row for a pair and a concept row if and only *)
(* if their codes are equal (one row when the concept has at most one      *)
(* semantic type), every output row is such a row, and a clinical code     *)
(* absent from the concept table gives no row and no error.                *)
C3_ConceptInnerJoin ==
  call.op = "umls_cui_annotator" =>
    /\ call.error = NoError
    /\ call.returned
    /\ \A p \in ClinicalPairs, c \in ConceptRows :
         /\ (\E o \in Range(call.result) : Enriches(o, p, c)) <=> c.CODE = p.code
         /\ (c.CODE = p.code /\ Cardinality(SemanticTypes(c.CUI)) <= 1) =>
              Cardinality({i \in 1..Len(call.result) : Enriches(call.result[i], p, c)}) = 1
    /\ \A o \in Range(call.result) :
         \E p \in ClinicalPairs, c \in ConceptRows : Enriches(o, p, c) /\ c.CODE = p.code

(* A call that enriched one clinical pair and dropped another, whose code  *)
(* the concept table does not have.                                        *)
C3_Witness ==
  /\ UmlsReturned
  /\ call.result # <<>>
  /\ \E p \in ClinicalPairs :
       /\ \A c \in ConceptRows : c.CODE # p.code
       /\ \A o \in Range(call.result) : o.code # p.code

(* C4: the semantic-type join is a left join that keeps the fan-out: every *)
(* row of the concept join is in the output exactly once per semantic type *)
(* of its CUI, exactly once with a null UMLS_SEM_TYPE when the CUI has     *)
(* none, in no other form, and no two output rows are identical.           *)
C4_SemTypeLeftJoin ==
  UmlsReturned =>
    /\ NoDuplicates(call.result)
    /\ \A p \in ClinicalPairs : \A c \in {d \in ConceptRows : d.CODE = p.code} :
         LET stys == IF SemanticTypes(c.CUI) = {} THEN {Null} ELSE SemanticTypes(c.CUI)
         IN  /\ \A sty \in stys : Count(call.result, Enriched(p, c, sty)) = 1
             /\ \A o \in Range(call.result) : Enriches(o, p, c) => o.UMLS_SEM_TYPE \in stys

(* One code with two concepts: one concept with two semantic types, the    *)
(* other with none.                                                        *)
C4_Witness ==
  /\ UmlsReturned
  /\ \E o1, o2, o3 \in Range(call.result) :
       /\ o1.UMLS_CUI = o2.UMLS_CUI
       /\ o1.UMLS_SEM_TYPE # o2.UMLS_SEM_TYPE
       /\ o3.UMLS_SEM_TYPE = Null
       /\ SemanticTypes(o3.UMLS_CUI) = {}

(* C7: an annotator constructed with a concept file has a concept table    *)
(* with no row of CODE 'NOCODE' and no two identical rows, in every state  *)
(* after construction, and umls_cui_annotator returns no row with          *)
(* UMLS_CODE = 'NOCODE'.                                                   *)
C7_NoSentinelNoDuplicates ==
  (status.phase = "ok" /\ args.umls_mrconso_file.truthy) =>
    /\ self.umls_cui_data.state = "frame"
    /\ \A r \in Range(self.umls_cui_data.rows) : r.CODE # "NOCODE"
    /\ NoDuplicates(self.umls_cui_data.rows)
    /\ UmlsReturned => \A o \in Range(call.result) : o.UMLS_CODE # "NOCODE"

(* The concept file holds the same sentinel row twice, the clinical table  *)
(* has the code 'NOCODE', and umls_cui_annotator has returned.             *)
C7_Witness ==
  /\ UmlsReturned
  /\ Len(files.mrconso) = 2
  /\ files.mrconso[1] = files.mrconso[2]
  /\ files.mrconso[1].CODE = "NOCODE"
  /\ \E r \in Range(self.clinical_data.rows) : r.code = "NOCODE"

(***************************************************************************)
(* The frame of the stages, checked under Spec: every constructed          *)
(* annotator, with and without thesaurus tables, and both stages.          *)
(***************************************************************************)

(* C6: after construction the stages leave the object (clinical_data,      *)
(* ontology_dictionary, umls_cui_data, umls_tui_data) and the files as     *)
(* they are, dbxref_mapper leaves its argument table as it is, and a stage *)
(* called again with the same arguments gives the same outcome.            *)
C6_StagesReadOnly ==
  [][status.phase = "ok" =>
       /\ self' = self
       /\ files' = files
       /\ call'.op = "dbxref_mapper" => call'.after = call'.data
       /\ (call'.op = call.op /\ call'.data = call.data) =>
            /\ call'.result = call.result
            /\ call'.error = call.error
            /\ call'.returned = call.returned]_vars

(* umls_cui_annotator called after dbxref_mapper on an annotator whose     *)
(* clinical table has a duplicated row.                                    *)
C6_Witness ==
  /\ UmlsReturned
  /\ call.prev = "dbxref_mapper"
  /\ ~NoDuplicates(self.clinical_data.rows)
  /\ call.result # <<>>

(***************************************************************************)
(* Properties of construction, checked under Spec.                         *)
(***************************************************************************)

(* C5: umls_cui_annotator called on an annotator constructed without the   *)
(* MRCONSO file or without the MRSTY file raises an error, returns no      *)
(* table and runs none of its joins.                                       *)
C5_NoJoinWithoutThesaurus ==
  (call.op = "umls_cui_annotator"
     /\ (~args.umls_mrconso_file.truthy \/ ~args.umls_mrsty_file.truthy)) =>
    /\ call.error # NoError
    /\ ~call.returned
    /\ call.joins = <<>>

ListArgs == {"concept_codes", "concept_strings", "ancestor_codes", "ancestor_strings"}

(* C8: a value given for concept_codes, concept_strings, ancestor_codes or *)
(* ancestor_strings that is neither None nor a list makes construction     *)
(* fail (with a TypeError when the failure is about one of these four), so *)
(* a constructed annotator has a list as concept_codes and None or a list  *)
(* in each of the three optional fields.                                   *)
C8_NonListRejected ==
  status.phase # "new" =>
    /\ (\E f \in ListArgs : args[f].type \notin {"NoneType", "list"}) =>
         /\ status.phase = "failed"
         /\ status.error.arg \in ListArgs => status.error.type = "TypeError"
    /\ status.phase = "ok" =>
         /\ self.concept_codes.type = "list"
         /\ \A f \in ListArgs \ {"concept_codes"} : self[f].type \in {"NoneType", "list"}

EmptyClinicalFile == status.phase # "new" /\ args.clinical_file = PyStr("empty.csv")

(* C9, as stated: a clinical file of 0 bytes makes construction raise an   *)
(* error of a kind distinct from the one raised for a clinical_file that   *)
(* is no string and from the one raised for a missing file, and no         *)
(* clinical table is loaded.                                               *)
C9_EmptyFileErrorKindDistinct ==
  EmptyClinicalFile =>
    /\ status.phase = "failed"
    /\ status.error.type # ConceptAnnotatorInit([args EXCEPT !.clinical_file = PyInt], files).error.type
    /\ status.error.type #
         ConceptAnnotatorInit([args EXCEPT !.clinical_file = PyStr("missing.csv")], files).error.type
    /\ self.clinical_data.state = "unset"

(* C9, amended: a clinical file of 0 bytes makes construction raise a      *)
(* TypeError, the kind also raised for a clinical_file that is no string   *)
(* (the message differs), distinct from the OSError raised for a missing   *)
(* file, and no clinical table is loaded.                                  *)
C9_EmptyFileRaisesTypeError ==
  EmptyClinicalFile =>
    LET notStr == ConceptAnnotatorInit([args EXCEPT !.clinical_file = PyInt], files).error
        missing ==
          ConceptAnnotatorInit([args EXCEPT !.clinical_file = PyStr("missing.csv")], files).error
    IN  /\ status.phase = "failed"
        /\ status.error = Error("TypeError", "clinical_file", "file is empty")
        /\ notStr.type = status.error.type
        /\ notStr.msg # status.error.msg
        /\ missing.type = "OSError"
        /\ self.clinical_data.state = "unset"
        /\ \A i \in 1..Len(status.trace) : status.trace[i][2] # "load"

(* Construction has failed on an empty clinical file, every other argument *)
(* being valid.                                                            *)
C9_Witness ==
  /\ EmptyClinicalFile
  /\ status.phase = "failed"
  /\ [args EXCEPT !.clinical_file = PyStr("clinical.csv")] =
       ValidArgs(SampleOnts, PyStr("MRCONSO.RRF"), PyStr("MRSTY.RRF"))

(* The order of validation the claim states.                               *)
StatedOrder ==
  <<"clinical_file", "primary_key", "concept_codes", "concept_strings", "ancestor_codes",
    "ancestor_strings", "ontology_dictionary", "umls_mrconso_file", "umls_mrsty_file">>

StatedFileChecks == <<"type", "exists", "size", "load">>

IndexIn(seq, x) == CHOOSE i \in 1..Len(seq) : seq[i] = x

FileFails(v) == v.type # "str" \/ FileKind(v.val) # "good"

(* The argument is one that construction rejects.                          *)
Invalid(name) ==
  CASE name = "clinical_file" -> FileFails(args[name])
    [] name = "primary_key" -> args[name].type # "str"
    [] name = "concept_codes" -> args[name].type # "list"
    [] name \in {"concept_strings", "ancestor_codes", "ancestor_strings"} ->
         args[name].truthy /\ args[name].type # "list"
    [] name = "ontology_dictionary" -> args[name].type # "dict"
    [] name \in {"umls_mrconso_file", "umls_mrsty_file"} ->
         args[name].truthy /\ FileFails(args[name])

FirstInvalid == CHOOSE i \in 1..Len(StatedOrder) :
                  /\ Invalid(StatedOrder[i])
                  /\ \A j \in 1..(i - 1) : ~Invalid(StatedOrder[j])

(* C10: construction checks its arguments in the stated order and stops at *)
(* the first check that fails: the error is the one of the earliest        *)
(* invalid argument, nothing of a later argument is checked or loaded, the *)
(* checks of a file come as type, existence, size, load, and no stage runs *)
(* on an annotator whose construction failed.                              *)
C10_FailFastInOrder ==
  status.phase # "new" =>
    /\ status.phase = "ok" <=> \A i \in 1..Len(StatedOrder) : ~Invalid(StatedOrder[i])
    /\ status.phase = "failed" =>
         /\ status.error.arg = StatedOrder[FirstInvalid]
         /\ \A k \in 1..Len(status.trace) :
              IndexIn(StatedOrder, status.trace[k][1]) <= FirstInvalid
         /\ Last(status.trace)[1] = status.error.arg
         /\ \A f \in {"clinical_data", "umls_cui_data", "umls_tui_data"} :
              self[f].state = "frame" =>
                \E k \in 1..Len(status.trace) : status.trace[k][2] = "load"
         /\ call.op = "none"
    /\ \A k, l \in 1..Len(status.trace) :
         k < l =>
           /\ IndexIn(StatedOrder, status.trace[k][1]) <= IndexIn(StatedOrder, status.trace[l][1])
           /\ (status.trace[k][1] = status.trace[l][1]
                 /\ status.trace[k][2] \in Range(StatedFileChecks)
                 /\ status.trace[l][2] \in Range(StatedFileChecks)) =>
                IndexIn(StatedFileChecks, status.trace[k][2])
                  < IndexIn(StatedFileChecks, status.trace[l][2])

(* Construction failed on a missing clinical file although the primary key *)
(* and the MRSTY file were invalid too.                                    *)
C10_Witness ==
  /\ status.phase = "failed"
  /\ args.clinical_file = PyStr("missing.csv")
  /\ args.primary_key = PyInt
  /\ args.umls_mrsty_file = PyStr("empty.csv")
  /\ status.error.type = "OSError"

====
